---- MODULE Spec2Model ----
(***************************************************************************)
(* Model of the WebSocket relay of goproxy (websocket.go):                 *)
(*   - proxyWebsocket: full-handler delegation, or a two-goroutine relay   *)
(*     synchronised on a buffered channel, followed by the deferred close  *)
(*     handler;                                                            *)
(*   - headerContains / isWebSocketHandshake: the upgrade predicate.       *)
(* Strings are sequences of code points, so that Split, TrimSpace and      *)
(* EqualFold are computed on characters as the Go library computes them.   *)
(***************************************************************************)
EXTENDS Integers, Sequences, FiniteSets, TLC

\* ------------------------------------------------------------------------
\* Bounds
\* ------------------------------------------------------------------------
\* Longest byte sequence a peer has sent on a stream before the relay starts.
MaxData == 1

\* ------------------------------------------------------------------------
\* Program constants
\* ------------------------------------------------------------------------
WebSocketClientToServer == 0
WebSocketServerToClient == 1
\* Variant of WaitChanCap: the channel has room for one signal.
WaitChanCap_One == 2 - 1

\* make(chan struct{}, 2)
WaitChanCap == 2

Directions == {WebSocketClientToServer, WebSocketServerToClient}

\* The two duplex streams handed to proxyWebsocket, by the name of the
\* parameter that carries them.
Streams == {"remoteConn", "proxyClient"}

\* Payload byte each peer sends on its stream, and the byte the suffixing copy
\* hook appends.
BytesOf(s) == IF s = "proxyClient" THEN {1} ELSE {2}
sSuffix == <<9>>

\* Byte counts a copy hook may report.
HookCounts == {0, 7}

NoRet == [n |-> -1, err |-> "pending"]

\* Values of the three handler slots of ProxyCtx ("nil" = not registered).
FullHandlers == {"nil", "fullHandler"}
CopyHandlers == {"nil", "copyHook", "suffixHook"}
CloseHandlers == {"nil", "closeHandler"}

VARIABLES
    ctx,            \* *ProxyCtx: Session and the three handler slots
    pc,             \* position of the goroutine that called proxyWebsocket
    task,           \* position of each direction's goroutine
    waitChan,       \* number of signals buffered in waitChan
    inbuf,          \* per stream: bytes available to Read from it
    outbuf,         \* per stream: bytes written to it, with who wrote them
    closed,         \* per stream: the peer / owner has closed it
    handlerCalls,   \* argument tuples of HandleWebSocket invocations
    copyFuncCalls,  \* invocations of copyFunc
    opCalls,        \* invocations of the copy hook / copyOrWarn
    copyRet,        \* per direction: (n, err) the copy operation returned
    closeCalls,     \* arguments of WebSocketCloseHandler invocations
    warnings,       \* number of ctx.Warnf calls made by copyOrWarn
    trace,          \* engine steps taken, per goroutine
    header,         \* http.Header handed to the upgrade predicate
    handler,        \* the full handler: "idle", "running" or "returned"
    sent,           \* per stream: everything its peer sent (never changes)
    tokens,         \* the tokens the header values were built from
    hcall,          \* last call of the upgrade predicate and its result
    hj              \* a call of hijackConnection: position, inputs, effects

relayVars == <<ctx, pc, task, waitChan, inbuf, outbuf, closed, handlerCalls,
               copyFuncCalls, opCalls, copyRet, closeCalls, warnings, trace,
               handler, sent>>
headerVars == <<header, tokens, hcall>>
vars == <<ctx, pc, task, waitChan, inbuf, outbuf, closed, handlerCalls,
          copyFuncCalls, opCalls, copyRet, closeCalls, warnings, trace,
          handler, sent, header, tokens, hcall, hj>>

\* Everything the engine's own goroutines hold, as opposed to the streams.
engineVars == <<ctx, pc, task, waitChan, handlerCalls, copyFuncCalls, opCalls,
                copyRet, closeCalls, warnings, trace, handler>>

\* ------------------------------------------------------------------------
\* Helpers
\* ------------------------------------------------------------------------
SeqsUpTo(S, n) == UNION {[1..k -> S] : k \in 0..n}

\* Variant of DstOf: the second goroutine is given the first one's destination.
DstOf_SameForBoth(d) == "remoteConn"

\* Source and destination of each direction, as passed to copyFunc.
DstOf(d) == IF d = WebSocketClientToServer THEN "remoteConn" ELSE "proxyClient"
SrcOf(d) == IF d = WebSocketClientToServer THEN "proxyClient" ELSE "remoteConn"

\* What a registered copy hook writes for one chunk it read.
HookOutput(h, b) == IF h = "suffixHook" THEN <<b>> \o sSuffix ELSE <<b>>

Tag(by, d, data) == [i \in 1..Len(data) |-> [by |-> by, on |-> d, b |-> data[i]]]

\* The copy operation a direction's goroutine is inside, with its arguments.
OpOf(calls, d) == calls[CHOOSE i \in 1..Len(calls) : calls[i].on = d]

LogMain(a) == [trace EXCEPT !.main = Append(@, a)]
LogTask(d, a) == [trace EXCEPT !.tasks[d] = Append(@, a)]

NoHeaderCall == [fn |-> "none", name |-> "", value |-> <<>>, result |-> FALSE]

\* hijackConnection is not running.
NoConn == [conn |-> "nil", err |-> "nil"]
NoHijack == [pc |-> "idle", Session |-> 42, hijacker |-> TRUE, attempts |-> 0,
             got |-> NoConn, warns |-> <<>>, ret |-> NoConn]
HijackIdle == hj = NoHijack

\* ------------------------------------------------------------------------
\* Initial state of the relay
\* ------------------------------------------------------------------------
RelayInit ==
    /\ ctx \in [Session : {42},
                WebSocketHandler : FullHandlers,
                WebSocketCopyHandler : CopyHandlers,
                WebSocketCloseHandler : CloseHandlers]
    /\ pc = "idle"
    /\ task = [d \in Directions |-> "unstarted"]
    /\ waitChan = 0
    /\ inbuf \in {f \in [Streams -> SeqsUpTo({1, 2}, MaxData)] :
                    \A s \in Streams : \A i \in 1..Len(f[s]) : f[s][i] \in BytesOf(s)}
    /\ outbuf = [s \in Streams |-> <<>>]
    /\ closed = [s \in Streams |-> FALSE]
    /\ handlerCalls = <<>>
    /\ copyFuncCalls = <<>>
    /\ opCalls = <<>>
    /\ copyRet = [d \in Directions |-> NoRet]
    /\ closeCalls = <<>>
    /\ warnings = 0
    /\ trace = [main |-> <<>>, tasks |-> [d \in Directions |-> <<>>]]
    /\ handler = "idle"
    /\ sent = inbuf

HeaderIdle ==
    /\ header = [k \in {} |-> <<>>]
    /\ tokens = [k \in {} |-> <<>>]
    /\ hcall = NoHeaderCall

Init == RelayInit /\ HeaderIdle /\ HijackIdle

\* ------------------------------------------------------------------------
\* proxyWebsocket, the calling goroutine
\* ------------------------------------------------------------------------
\* Variant of Call: the two streams are handed to the full handler in the
\* order of proxyWebsocket's own parameters.
Call_SwappedStreams ==
    /\ pc = "idle"
    /\ IF ctx.WebSocketHandler # "nil"
       THEN /\ handlerCalls' = Append(handlerCalls,
                    [remoteConn |-> "proxyClient", proxyClient |-> "remoteConn",
                     ctx |-> ctx, on |-> "main"])
            /\ handler' = "running"
            /\ pc' = "inHandler"
            /\ trace' = LogMain("HandleWebSocket")
            /\ UNCHANGED waitChan
       ELSE /\ pc' = "go1"
            /\ waitChan' = 0
            /\ trace' = LogMain("defer")
            /\ UNCHANGED <<handlerCalls, handler>>
    /\ UNCHANGED <<ctx, task, inbuf, outbuf, closed, copyFuncCalls, opCalls,
                   copyRet, closeCalls, warnings>>
    /\ UNCHANGED <<sent, headerVars, hj>>

\* Entry: delegate to the full handler if one is set; otherwise register the
\* deferred close handler, make waitChan and build copyFunc.
Call ==
    /\ pc = "idle"
    /\ IF ctx.WebSocketHandler # "nil"
       THEN /\ handlerCalls' = Append(handlerCalls,
                    [remoteConn |-> "remoteConn", proxyClient |-> "proxyClient",
                     ctx |-> ctx, on |-> "main"])
            /\ handler' = "running"
            /\ pc' = "inHandler"
            /\ trace' = LogMain("HandleWebSocket")
            /\ UNCHANGED waitChan
       ELSE /\ pc' = "go1"
            /\ waitChan' = 0
            /\ trace' = LogMain("defer")
            /\ UNCHANGED <<handlerCalls, handler>>
    /\ UNCHANGED <<ctx, task, inbuf, outbuf, closed, copyFuncCalls, opCalls,
                   copyRet, closeCalls, warnings>>
    /\ UNCHANGED <<sent, headerVars, hj>>

\* The full handler (outside websocket.go) finishes.
HandlerReturn ==
    /\ handler = "running"
    /\ handler' = "returned"
    /\ UNCHANGED <<ctx, pc, task, waitChan, inbuf, outbuf, closed, handlerCalls,
                   copyFuncCalls, opCalls, copyRet, closeCalls, warnings, trace>>
    /\ UNCHANGED <<sent, headerVars, hj>>

\* Variant of ReturnAfterHandler: the early return is missing, so the relay
\* path runs after the full handler.
ReturnAfterHandler_FallThrough ==
    /\ pc = "inHandler"
    /\ handler = "returned"
    /\ pc' = "go1"
    /\ trace' = LogMain("defer")
    /\ UNCHANGED <<ctx, task, waitChan, inbuf, outbuf, closed, handlerCalls,
                   copyFuncCalls, opCalls, copyRet, closeCalls, warnings>>
    /\ UNCHANGED <<handler, sent, headerVars, hj>>

\* HandleWebSocket has returned to proxyWebsocket, which returns.
ReturnAfterHandler ==
    /\ pc = "inHandler"
    /\ handler = "returned"
    /\ pc' = "returned"
    /\ trace' = LogMain("return")
    /\ UNCHANGED <<ctx, task, waitChan, inbuf, outbuf, closed, handlerCalls,
                   copyFuncCalls, opCalls, copyRet, closeCalls, warnings>>
    /\ UNCHANGED <<handler, sent, headerVars, hj>>

\* go func() { copyFunc(remoteConn, proxyClient, WebSocketClientToServer) ... }
GoClientToServer ==
    /\ pc = "go1"
    /\ pc' = "go2"
    /\ task' = [task EXCEPT ![WebSocketClientToServer] = "ready"]
    /\ trace' = LogMain("go")
    /\ UNCHANGED <<ctx, waitChan, inbuf, outbuf, closed, handlerCalls,
                   copyFuncCalls, opCalls, copyRet, closeCalls, warnings>>
    /\ UNCHANGED <<handler, sent, headerVars, hj>>

\* Variant of GoServerToClient: the second direction is started once the first
\* has finished.
GoServerToClient_AfterFirst ==
    /\ pc = "go2"
    /\ task[WebSocketClientToServer] = "done"
    /\ pc' = "recv1"
    /\ task' = [task EXCEPT ![WebSocketServerToClient] = "ready"]
    /\ trace' = LogMain("go")
    /\ UNCHANGED <<ctx, waitChan, inbuf, outbuf, closed, handlerCalls,
                   copyFuncCalls, opCalls, copyRet, closeCalls, warnings>>
    /\ UNCHANGED <<handler, sent, headerVars, hj>>

\* Variant of GoServerToClient: the function body ends after the second go
\* statement, without the receives.
GoServerToClient_NoWait ==
    /\ pc = "go2"
    /\ pc' = "defer"
    /\ task' = [task EXCEPT ![WebSocketServerToClient] = "ready"]
    /\ trace' = LogMain("go")
    /\ UNCHANGED <<ctx, waitChan, inbuf, outbuf, closed, handlerCalls,
                   copyFuncCalls, opCalls, copyRet, closeCalls, warnings>>
    /\ UNCHANGED <<handler, sent, headerVars, hj>>

\* go func() { copyFunc(proxyClient, remoteConn, WebSocketServerToClient) ... }
GoServerToClient ==
    /\ pc = "go2"
    /\ pc' = "recv1"
    /\ task' = [task EXCEPT ![WebSocketServerToClient] = "ready"]
    /\ trace' = LogMain("go")
    /\ UNCHANGED <<ctx, waitChan, inbuf, outbuf, closed, handlerCalls,
                   copyFuncCalls, opCalls, copyRet, closeCalls, warnings>>
    /\ UNCHANGED <<handler, sent, headerVars, hj>>

\* Variant of Wait1: the caller waits for one goroutine only.
Wait1_OnlyOne ==
    /\ pc = "recv1"
    /\ waitChan > 0
    /\ waitChan' = waitChan - 1
    /\ pc' = "defer"
    /\ trace' = LogMain("recv")
    /\ UNCHANGED <<ctx, task, inbuf, outbuf, closed, handlerCalls,
                   copyFuncCalls, opCalls, copyRet, closeCalls, warnings>>
    /\ UNCHANGED <<handler, sent, headerVars, hj>>

\* First <-waitChan
Wait1 ==
    /\ pc = "recv1"
    /\ waitChan > 0
    /\ waitChan' = waitChan - 1
    /\ pc' = "recv2"
    /\ trace' = LogMain("recv")
    /\ UNCHANGED <<ctx, task, inbuf, outbuf, closed, handlerCalls,
                   copyFuncCalls, opCalls, copyRet, closeCalls, warnings>>
    /\ UNCHANGED <<handler, sent, headerVars, hj>>

\* Variant of Wait2: the second receive is given up once a direction has
\* reported an error.
Wait2_AbortOnError ==
    /\ pc = "recv2"
    /\ \/ /\ waitChan > 0
          /\ waitChan' = waitChan - 1
          /\ trace' = LogMain("recv")
       \/ /\ \E d \in Directions : copyRet[d].err = "err"
          /\ UNCHANGED <<waitChan, trace>>
    /\ pc' = "defer"
    /\ UNCHANGED <<ctx, task, inbuf, outbuf, closed, handlerCalls,
                   copyFuncCalls, opCalls, copyRet, closeCalls, warnings>>
    /\ UNCHANGED <<handler, sent, headerVars, hj>>

\* Second <-waitChan; the function body ends and the deferred call is due.
Wait2 ==
    /\ pc = "recv2"
    /\ waitChan > 0
    /\ waitChan' = waitChan - 1
    /\ pc' = "defer"
    /\ trace' = LogMain("recv")
    /\ UNCHANGED <<ctx, task, inbuf, outbuf, closed, handlerCalls,
                   copyFuncCalls, opCalls, copyRet, closeCalls, warnings>>
    /\ UNCHANGED <<handler, sent, headerVars, hj>>

\* Variant of RunDeferred: the close handler is called only after a relay
\* without errors.
RunDeferred_OnSuccess ==
    /\ pc = "defer"
    /\ IF /\ ctx.WebSocketCloseHandler # "nil"
          /\ \A d \in Directions : copyRet[d].err # "err"
       THEN /\ closeCalls' = Append(closeCalls, ctx)
            /\ pc' = "inClose"
            /\ trace' = LogMain("WebSocketCloseHandler")
       ELSE /\ pc' = "returned"
            /\ trace' = LogMain("return")
            /\ UNCHANGED closeCalls
    /\ UNCHANGED <<ctx, task, waitChan, inbuf, outbuf, closed, handlerCalls,
                   copyFuncCalls, opCalls, copyRet, warnings>>
    /\ UNCHANGED <<handler, sent, headerVars, hj>>

\* Variant of RunDeferred: the close handler slot is cleared once the handler
\* has been called.
RunDeferred_ClearsSlot ==
    /\ pc = "defer"
    /\ IF ctx.WebSocketCloseHandler # "nil"
       THEN /\ closeCalls' = Append(closeCalls, ctx)
            /\ ctx' = [ctx EXCEPT !.WebSocketCloseHandler = "nil"]
            /\ pc' = "inClose"
            /\ trace' = LogMain("WebSocketCloseHandler")
       ELSE /\ pc' = "returned"
            /\ trace' = LogMain("return")
            /\ UNCHANGED <<closeCalls, ctx>>
    /\ UNCHANGED <<task, waitChan, inbuf, outbuf, closed, handlerCalls,
                   copyFuncCalls, opCalls, copyRet, warnings>>
    /\ UNCHANGED <<handler, sent, headerVars, hj>>

\* The deferred function: call the close handler if one is registered.
RunDeferred ==
    /\ pc = "defer"
    /\ IF ctx.WebSocketCloseHandler # "nil"
       THEN /\ closeCalls' = Append(closeCalls, ctx)
            /\ pc' = "inClose"
            /\ trace' = LogMain("WebSocketCloseHandler")
       ELSE /\ pc' = "returned"
            /\ trace' = LogMain("return")
            /\ UNCHANGED closeCalls
    /\ UNCHANGED <<ctx, task, waitChan, inbuf, outbuf, closed, handlerCalls,
                   copyFuncCalls, opCalls, copyRet, warnings>>
    /\ UNCHANGED <<handler, sent, headerVars, hj>>

\* The close handler returns; proxyWebsocket returns to its caller.
CloseReturn ==
    /\ pc = "inClose"
    /\ pc' = "returned"
    /\ trace' = LogMain("return")
    /\ UNCHANGED <<ctx, task, waitChan, inbuf, outbuf, closed, handlerCalls,
                   copyFuncCalls, opCalls, copyRet, closeCalls, warnings>>
    /\ UNCHANGED <<handler, sent, headerVars, hj>>

\* ------------------------------------------------------------------------
\* The two direction goroutines
\* ------------------------------------------------------------------------
\* Variant of CopyFunc: the registered copy hook is not consulted.
CopyFunc_IgnoresHook(d) ==
    /\ task[d] = "ready"
    /\ copyFuncCalls' = Append(copyFuncCalls,
            [dst |-> DstOf(d), src |-> SrcOf(d), direction |-> d, on |-> d])
    /\ opCalls' = Append(opCalls,
            [op |-> "copyOrWarn", dst |-> DstOf(d),
             src |-> SrcOf(d), direction |-> -1, ctx |-> ctx, on |-> d])
    /\ task' = [task EXCEPT ![d] = "inCopyOrWarn"]
    /\ trace' = LogTask(d, "copyOrWarn")
    /\ UNCHANGED <<ctx, pc, waitChan, inbuf, outbuf, closed, handlerCalls,
                   copyRet, closeCalls, warnings>>
    /\ UNCHANGED <<handler, sent, headerVars, hj>>

\* The goroutine calls copyFunc(dst, src, direction), which calls the copy
\* hook if ctx holds one and copyOrWarn otherwise.
CopyFunc(d) ==
    /\ task[d] = "ready"
    /\ copyFuncCalls' = Append(copyFuncCalls,
            [dst |-> DstOf(d), src |-> SrcOf(d), direction |-> d, on |-> d])
    /\ IF ctx.WebSocketCopyHandler # "nil"
       THEN /\ opCalls' = Append(opCalls,
                    [op |-> ctx.WebSocketCopyHandler, dst |-> DstOf(d),
                     src |-> SrcOf(d), direction |-> d, ctx |-> ctx, on |-> d])
            /\ task' = [task EXCEPT ![d] = "inHook"]
            /\ trace' = LogTask(d, "WebSocketCopyHandler")
       ELSE /\ opCalls' = Append(opCalls,
                    [op |-> "copyOrWarn", dst |-> DstOf(d),
                     src |-> SrcOf(d), direction |-> -1, ctx |-> ctx, on |-> d])
            /\ task' = [task EXCEPT ![d] = "inCopyOrWarn"]
            /\ trace' = LogTask(d, "copyOrWarn")
    /\ UNCHANGED <<ctx, pc, waitChan, inbuf, outbuf, closed, handlerCalls,
                   copyRet, closeCalls, warnings>>
    /\ UNCHANGED <<handler, sent, headerVars, hj>>

\* Variant of Signal: a goroutine whose copy failed ends without signalling.
Signal_SkipsOnError(d) ==
    /\ task[d] = "copied"
    /\ waitChan < WaitChanCap
    /\ waitChan' = IF copyRet[d].err = "err" THEN waitChan ELSE waitChan + 1
    /\ task' = [task EXCEPT ![d] = "done"]
    /\ trace' = LogTask(d, "send")
    /\ UNCHANGED <<ctx, pc, inbuf, outbuf, closed, handlerCalls,
                   copyFuncCalls, opCalls, copyRet, closeCalls, warnings>>
    /\ UNCHANGED <<handler, sent, headerVars, hj>>

\* Variant of Signal: the goroutine closes its destination when its copy ends.
Signal_ClosesDst(d) ==
    /\ task[d] = "copied"
    /\ waitChan < WaitChanCap
    /\ waitChan' = waitChan + 1
    /\ task' = [task EXCEPT ![d] = "done"]
    /\ trace' = LogTask(d, "send")
    /\ closed' = [closed EXCEPT ![DstOf(d)] = TRUE]
    /\ UNCHANGED <<ctx, pc, inbuf, outbuf, handlerCalls,
                   copyFuncCalls, opCalls, copyRet, closeCalls, warnings>>
    /\ UNCHANGED <<handler, sent, headerVars, hj>>

\* waitChan <- struct{}{}
Signal(d) ==
    /\ task[d] = "copied"
    /\ waitChan < WaitChanCap
    /\ waitChan' = waitChan + 1
    /\ task' = [task EXCEPT ![d] = "done"]
    /\ trace' = LogTask(d, "send")
    /\ UNCHANGED <<ctx, pc, inbuf, outbuf, closed, handlerCalls,
                   copyFuncCalls, opCalls, copyRet, closeCalls, warnings>>
    /\ UNCHANGED <<handler, sent, headerVars, hj>>

\* ------------------------------------------------------------------------
\* The copy operations and the peers (outside websocket.go)
\* ------------------------------------------------------------------------
\* The registered copy hook reads a chunk from src and writes what it makes of
\* it to dst.
HookForward(d) ==
    /\ task[d] = "inHook"
    /\ LET op == OpOf(opCalls, d)
       IN /\ inbuf[op.src] # <<>>
          /\ ~closed[op.dst]
          /\ inbuf' = [inbuf EXCEPT ![op.src] = Tail(@)]
          /\ outbuf' = [outbuf EXCEPT ![op.dst] =
                            @ \o Tag(op.op, d, HookOutput(op.op, Head(inbuf[op.src])))]
    /\ UNCHANGED <<ctx, pc, task, waitChan, closed, handlerCalls,
                   copyFuncCalls, opCalls, copyRet, closeCalls, warnings, trace>>
    /\ UNCHANGED <<handler, sent, headerVars, hj>>

\* The copy hook returns whatever (n, err) it likes, whenever it likes.
HookReturn(d, n, err) ==
    /\ task[d] = "inHook"
    /\ copyRet' = [copyRet EXCEPT ![d] = [n |-> n, err |-> err]]
    /\ task' = [task EXCEPT ![d] = "copied"]
    /\ UNCHANGED <<ctx, pc, waitChan, inbuf, outbuf, closed, handlerCalls,
                   copyFuncCalls, opCalls, closeCalls, warnings, trace>>
    /\ UNCHANGED <<handler, sent, headerVars, hj>>

\* copyOrWarn moves a chunk from src to dst unchanged.
CopyOrWarnForward(d) ==
    /\ task[d] = "inCopyOrWarn"
    /\ LET op == OpOf(opCalls, d)
       IN /\ inbuf[op.src] # <<>>
          /\ ~closed[op.dst]
          /\ inbuf' = [inbuf EXCEPT ![op.src] = Tail(@)]
          /\ outbuf' = [outbuf EXCEPT ![op.dst] =
                            @ \o Tag("copyOrWarn", d, <<Head(inbuf[op.src])>>)]
    /\ UNCHANGED <<ctx, pc, task, waitChan, closed, handlerCalls,
                   copyFuncCalls, opCalls, copyRet, closeCalls, warnings, trace>>
    /\ UNCHANGED <<handler, sent, headerVars, hj>>

\* copyOrWarn returns: nil once the source is exhausted and closed, or an
\* error on a failed read or write, which it logs to the warning sink.
CopyOrWarnReturn(d, err) ==
    /\ task[d] = "inCopyOrWarn"
    /\ err = "nil" => LET op == OpOf(opCalls, d)
                     IN inbuf[op.src] = <<>> /\ closed[op.src]
    /\ copyRet' = [copyRet EXCEPT ![d] = [n |-> 0, err |-> err]]
    /\ warnings' = IF err # "nil" THEN warnings + 1 ELSE warnings
    /\ task' = [task EXCEPT ![d] = "copied"]
    /\ UNCHANGED <<ctx, pc, waitChan, inbuf, outbuf, closed, handlerCalls,
                   copyFuncCalls, opCalls, closeCalls, trace>>
    /\ UNCHANGED <<handler, sent, headerVars, hj>>

\* A peer (or the owner of the connections) closes a stream.
PeerClose(s) ==
    /\ pc \notin {"idle", "returned"}
    /\ ~closed[s]
    /\ closed' = [closed EXCEPT ![s] = TRUE]
    /\ UNCHANGED <<ctx, pc, task, waitChan, inbuf, outbuf, handlerCalls,
                   copyFuncCalls, opCalls, copyRet, closeCalls, warnings, trace>>
    /\ UNCHANGED <<handler, sent, headerVars, hj>>

Errs == {"nil", "err"}

Next ==
    \/ Call
    \/ HandlerReturn
    \/ ReturnAfterHandler
    \/ GoClientToServer
    \/ GoServerToClient
    \/ Wait1
    \/ Wait2
    \/ RunDeferred
    \/ CloseReturn
    \/ \E d \in Directions : CopyFunc(d)
    \/ \E d \in Directions : Signal(d)
    \/ \E d \in Directions : HookForward(d)
    \/ \E d \in Directions, n \in HookCounts, err \in Errs : HookReturn(d, n, err)
    \/ \E d \in Directions : CopyOrWarnForward(d)
    \/ \E d \in Directions, err \in Errs : CopyOrWarnReturn(d, err)
    \/ \E s \in Streams : PeerClose(s)

Spec == Init /\ [][Next]_vars

\* ------------------------------------------------------------------------
\* The upgrade predicate: strings are sequences of code points
\* ------------------------------------------------------------------------
\* Most tokens a whole header map holds, over all names and occurrences.
MaxTokens == 3

sUpgrade == <<85, 112, 103, 114, 97, 100, 101>>
sUpgradeMixed == <<117, 80, 71, 82, 65, 68, 69>>
sUpgrades == <<85, 112, 103, 114, 97, 100, 101, 115>>
sWebsocket == <<119, 101, 98, 115, 111, 99, 107, 101, 116>>
sWebSocketMixed == <<87, 101, 98, 83, 111, 99, 107, 101, 116>>
sH2c == <<104, 50, 99>>
sComma == <<44>>
sSpace == <<32>>
sTab == <<9>>

\* The code points strings.TrimSpace strips from an ASCII string.
AsciiSpace == {9, 10, 11, 12, 13, 32}

HeaderNames == {"Connection", "Upgrade"}

\* A token is a word (no comma, no surrounding whitespace) with the whitespace
\* written around it.
TokenChoices ==
    { [lead |-> <<>>,   word |-> sUpgrade,        trail |-> <<>>],
      [lead |-> sSpace, word |-> sUpgradeMixed,   trail |-> <<>>],
      [lead |-> <<>>,   word |-> sUpgrades,       trail |-> <<>>],
      [lead |-> <<>>,   word |-> sWebsocket,      trail |-> <<>>],
      [lead |-> sSpace, word |-> sWebSocketMixed, trail |-> sTab],
      [lead |-> <<>>,   word |-> sH2c,            trail |-> sSpace],
      [lead |-> <<>>,   word |-> <<>>,            trail |-> <<>>] }

\* The values the predicate is asked to look for.
ValueChoices == {sUpgrade, sWebsocket, sH2c, <<>>}

Flat(tok) == tok.lead \o tok.word \o tok.trail

\* The header values built from a list of placed tokens: a token either opens
\* a new occurrence of its header name or follows a comma in the last one.
RECURSIVE Occurrences(_)
Occurrences(es) ==
    IF es = <<>> THEN <<>>
    ELSE LET init == Occurrences(SubSeq(es, 1, Len(es) - 1))
             e == es[Len(es)]
         IN IF e.newOcc \/ init = <<>>
            THEN Append(init, Flat(e.tok))
            ELSE [init EXCEPT ![Len(init)] = @ \o sComma \o Flat(e.tok)]

EntriesOf(es, name) == SelectSeq(es, LAMBDA e : e.name = name)

HeaderOf(es) ==
    [name \in {es[i].name : i \in 1..Len(es)} |-> Occurrences(EntriesOf(es, name))]

\* Placements are listed with the "Connection" tokens first, and the first
\* token of a name opens its first occurrence.
WellPlaced(es) ==
    /\ \A i \in 1..Len(es) - 1 :
            es[i].name = "Upgrade" => es[i + 1].name = "Upgrade"
    /\ \A i \in 1..Len(es) :
            (i = 1 \/ es[i - 1].name # es[i].name) => es[i].newOcc

Placements ==
    {es \in SeqsUpTo([name : HeaderNames, newOcc : BOOLEAN, tok : TokenChoices],
                     MaxTokens) : WellPlaced(es)}

\* header[name]: the occurrences of a header name, none if it is absent.
HeaderValues(h, name) == IF name \in DOMAIN h THEN h[name] ELSE <<>>

\* strings.Split(v, ","): cut at every comma, keeping empty pieces.
RECURSIVE Split(_)
Split(v) ==
    IF \A i \in 1..Len(v) : <<v[i]>> # sComma
    THEN <<v>>
    ELSE LET c == CHOOSE i \in 1..Len(v) :
                    /\ <<v[i]>> = sComma
                    /\ \A j \in 1..(i - 1) : <<v[j]>> # sComma
         IN <<SubSeq(v, 1, c - 1)>> \o Split(SubSeq(v, c + 1, Len(v)))

\* strings.TrimSpace(s): drop leading and trailing white space.
RECURSIVE TrimLeft(_)
TrimLeft(s) ==
    IF s # <<>> /\ Head(s) \in AsciiSpace THEN TrimLeft(Tail(s)) ELSE s

RECURSIVE TrimRight(_)
TrimRight(s) ==
    IF s # <<>> /\ s[Len(s)] \in AsciiSpace
    THEN TrimRight(SubSeq(s, 1, Len(s) - 1))
    ELSE s

TrimSpace(s) == TrimRight(TrimLeft(s))

\* strings.EqualFold(s, t) on ASCII strings: byte by byte, two bytes agree if
\* equal or if they are the upper and lower case of one letter.
RECURSIVE EqualFoldFrom(_, _, _)
EqualFoldFrom(s, t, i) ==
    IF i > Len(s) \/ i > Len(t)
    THEN Len(s) = Len(t)
    ELSE LET sr == IF s[i] <= t[i] THEN s[i] ELSE t[i]
             tr == IF s[i] <= t[i] THEN t[i] ELSE s[i]
         IN IF tr = sr \/ (65 <= sr /\ sr <= 90 /\ tr = sr + 32)
            THEN EqualFoldFrom(s, t, i + 1)
            ELSE FALSE

EqualFold(s, t) == EqualFoldFrom(s, t, 1)

\* The inner loop of headerContains: the pieces of one occurrence, in order.
RECURSIVE ScanPieces(_, _, _)
ScanPieces(pieces, value, j) ==
    IF j > Len(pieces) THEN FALSE
    ELSE IF EqualFold(value, TrimSpace(pieces[j])) THEN TRUE
    ELSE ScanPieces(pieces, value, j + 1)

\* Variant of ScanValues: only the first occurrence is looked at.
ScanValues_FirstOnly(vals, value, i) ==
    IF vals = <<>> THEN FALSE ELSE ScanPieces(Split(vals[1]), value, 1)

\* The outer loop of headerContains: the occurrences, in order.
RECURSIVE ScanValues(_, _, _)
ScanValues(vals, value, i) ==
    IF i > Len(vals) THEN FALSE
    ELSE IF ScanPieces(Split(vals[i]), value, 1) THEN TRUE
    ELSE ScanValues(vals, value, i + 1)

headerContains(h, name, value) == ScanValues(HeaderValues(h, name), value, 1)

\* Variant of isWebSocketHandshake: the Connection header is not consulted.
isWebSocketHandshake_UpgradeOnly(h) ==
    headerContains(h, "Upgrade", sWebsocket)

isWebSocketHandshake(h) ==
    /\ headerContains(h, "Connection", sUpgrade)
    /\ headerContains(h, "Upgrade", sWebsocket)

\* The relay is not running while the predicate is exercised.
RelayIdle ==
    /\ ctx = [Session |-> 42, WebSocketHandler |-> "nil",
              WebSocketCopyHandler |-> "nil", WebSocketCloseHandler |-> "nil"]
    /\ pc = "idle"
    /\ task = [d \in Directions |-> "unstarted"]
    /\ waitChan = 0
    /\ inbuf = [s \in Streams |-> <<>>]
    /\ outbuf = [s \in Streams |-> <<>>]
    /\ closed = [s \in Streams |-> FALSE]
    /\ handlerCalls = <<>>
    /\ copyFuncCalls = <<>>
    /\ opCalls = <<>>
    /\ copyRet = [d \in Directions |-> NoRet]
    /\ closeCalls = <<>>
    /\ warnings = 0
    /\ trace = [main |-> <<>>, tasks |-> [d \in Directions |-> <<>>]]
    /\ handler = "idle"
    /\ sent = inbuf

HeaderInit ==
    /\ tokens \in Placements
    /\ header = HeaderOf(tokens)
    /\ hcall = NoHeaderCall

\* The predicate is applied once to each header map drawn.
CallHeaderContains(name, value) ==
    /\ hcall = NoHeaderCall
    /\ hcall' = [fn |-> "headerContains", name |-> name, value |-> value,
                 result |-> headerContains(header, name, value)]
    /\ UNCHANGED <<header, tokens>>
    /\ UNCHANGED relayVars
    /\ UNCHANGED hj

CallIsWebSocketHandshake ==
    /\ hcall = NoHeaderCall
    /\ hcall' = [fn |-> "isWebSocketHandshake", name |-> "", value |-> <<>>,
                 result |-> isWebSocketHandshake(header)]
    /\ UNCHANGED <<header, tokens>>
    /\ UNCHANGED relayVars
    /\ UNCHANGED hj

InitHdr == RelayIdle /\ HeaderInit /\ HijackIdle

NextHdr ==
    \/ \E name \in HeaderNames, value \in ValueChoices :
            CallHeaderContains(name, value)
    \/ CallIsWebSocketHandshake

SpecHdr == InitHdr /\ [][NextHdr]_vars

\* ------------------------------------------------------------------------
\* hijackConnection
\* ------------------------------------------------------------------------
HijackSessions == {1, 2, 3, 42}

\* What hj.Hijack() may hand back: a connection or none, an error or none.
Conns == {"nil", "conn1", "conn2"}
HijackErrs == {"nil", "errClosed", "errHijacked"}

HijackInit ==
    hj \in [pc : {"idle"}, Session : HijackSessions, hijacker : BOOLEAN,
            attempts : {0}, got : {NoConn}, warns : {<<>>}, ret : {NoConn}]

\* Variant of HijackAssert: a response writer without takeover support makes
\* the function return an error.
HijackAssert_ReturnsError ==
    /\ hj.pc = "idle"
    /\ hj' = IF hj.hijacker
             THEN [hj EXCEPT !.pc = "asserted"]
             ELSE [hj EXCEPT !.pc = "returned",
                             !.ret = [conn |-> "nil", err |-> "errHijacked"]]
    /\ UNCHANGED <<relayVars, headerVars>>

\* hj, ok := w.(http.Hijacker); panic if the writer is no Hijacker.
HijackAssert ==
    /\ hj.pc = "idle"
    /\ hj' = [hj EXCEPT !.pc = IF hj.hijacker THEN "asserted" ELSE "panicked"]
    /\ UNCHANGED <<relayVars, headerVars>>

\* clientConn, _, err := hj.Hijack(): the host hands back what it likes.
HijackTakeover(conn, err) ==
    /\ hj.pc = "asserted"
    /\ hj' = [hj EXCEPT !.pc = "hijacked",
                        !.attempts = @ + 1,
                        !.got = [conn |-> conn, err |-> err]]
    /\ UNCHANGED <<relayVars, headerVars>>

\* ctx.Warnf("Hijack error: %v", err)
HijackWarn ==
    /\ hj.pc = "hijacked"
    /\ hj.got.err # "nil"
    /\ hj' = [hj EXCEPT !.pc = "warned",
                        !.warns = Append(@, [Session |-> hj.Session,
                                             err |-> hj.got.err])]
    /\ UNCHANGED <<relayVars, headerVars>>

\* Variant of HijackReturnErr: the connection Hijack handed back is returned
\* along with the error.
HijackReturnErr_KeepsConn ==
    /\ hj.pc = "warned"
    /\ hj' = [hj EXCEPT !.pc = "returned", !.ret = hj.got]
    /\ UNCHANGED <<relayVars, headerVars>>

\* return nil, err
HijackReturnErr ==
    /\ hj.pc = "warned"
    /\ hj' = [hj EXCEPT !.pc = "returned",
                        !.ret = [conn |-> "nil", err |-> hj.got.err]]
    /\ UNCHANGED <<relayVars, headerVars>>

\* return clientConn, nil
HijackReturnConn ==
    /\ hj.pc = "hijacked"
    /\ hj.got.err = "nil"
    /\ hj' = [hj EXCEPT !.pc = "returned",
                        !.ret = [conn |-> hj.got.conn, err |-> "nil"]]
    /\ UNCHANGED <<relayVars, headerVars>>

InitHijack == RelayIdle /\ HeaderIdle /\ HijackInit

NextHijack ==
    \/ HijackAssert
    \/ \E conn \in Conns, err \in HijackErrs : HijackTakeover(conn, err)
    \/ HijackWarn
    \/ HijackReturnErr
    \/ HijackReturnConn

SpecHijack == InitHijack /\ [][NextHijack]_vars

\* ------------------------------------------------------------------------
\* The relay while another party rewrites the copy handler slot of ctx
\* ------------------------------------------------------------------------
\* copyFunc, line 99: the goroutine reads ctx.WebSocketCopyHandler and
\* compares it with nil; with no hook it calls copyOrWarn.
CopyFuncCheck(d) ==
    /\ task[d] = "ready"
    /\ copyFuncCalls' = Append(copyFuncCalls,
            [dst |-> DstOf(d), src |-> SrcOf(d), direction |-> d, on |-> d])
    /\ IF ctx.WebSocketCopyHandler # "nil"
       THEN /\ task' = [task EXCEPT ![d] = "checked"]
            /\ UNCHANGED <<opCalls, trace>>
       ELSE /\ opCalls' = Append(opCalls,
                    [op |-> "copyOrWarn", dst |-> DstOf(d),
                     src |-> SrcOf(d), direction |-> -1, ctx |-> ctx, on |-> d])
            /\ task' = [task EXCEPT ![d] = "inCopyOrWarn"]
            /\ trace' = LogTask(d, "copyOrWarn")
    /\ UNCHANGED <<ctx, pc, waitChan, inbuf, outbuf, closed, handlerCalls,
                   copyRet, closeCalls, warnings>>
    /\ UNCHANGED <<handler, sent, headerVars, hj>>

\* copyFunc, line 100: the goroutine reads ctx.WebSocketCopyHandler again and
\* calls what it finds; calling a nil function panics, which ends the process
\* and every goroutine with it.
CopyFuncInvoke(d) ==
    /\ task[d] = "checked"
    /\ IF ctx.WebSocketCopyHandler # "nil"
       THEN /\ opCalls' = Append(opCalls,
                    [op |-> ctx.WebSocketCopyHandler, dst |-> DstOf(d),
                     src |-> SrcOf(d), direction |-> d, ctx |-> ctx, on |-> d])
            /\ task' = [task EXCEPT ![d] = "inHook"]
            /\ trace' = LogTask(d, "WebSocketCopyHandler")
            /\ UNCHANGED pc
       ELSE /\ task' = [e \in Directions |->
                            IF e = d THEN "panicked" ELSE "killed"]
            /\ pc' = "crashed"
            /\ UNCHANGED <<opCalls, trace>>
    /\ UNCHANGED <<ctx, waitChan, inbuf, outbuf, closed, handlerCalls,
                   copyFuncCalls, copyRet, closeCalls, warnings>>
    /\ UNCHANGED <<handler, sent, headerVars, hj>>

\* Another holder of ctx (a copy hook, the embedding proxy) sets or clears the
\* copy handler slot while the relay is running.
SetCopyHandler(h) ==
    /\ pc \in {"go1", "go2", "recv1", "recv2"}
    /\ h # ctx.WebSocketCopyHandler
    /\ ctx' = [ctx EXCEPT !.WebSocketCopyHandler = h]
    /\ UNCHANGED <<pc, task, waitChan, inbuf, outbuf, closed, handlerCalls,
                   copyFuncCalls, opCalls, copyRet, closeCalls, warnings, trace>>
    /\ UNCHANGED <<handler, sent, headerVars, hj>>

NextMut ==
    \/ Call
    \/ HandlerReturn
    \/ ReturnAfterHandler
    \/ GoClientToServer
    \/ GoServerToClient
    \/ Wait1
    \/ Wait2
    \/ RunDeferred
    \/ CloseReturn
    \/ \E d \in Directions : CopyFuncCheck(d)
    \/ \E d \in Directions : CopyFuncInvoke(d)
    \/ \E d \in Directions : Signal(d)
    \/ \E d \in Directions : HookForward(d)
    \/ \E d \in Directions, n \in HookCounts, err \in Errs : HookReturn(d, n, err)
    \/ \E d \in Directions : CopyOrWarnForward(d)
    \/ \E d \in Directions, err \in Errs : CopyOrWarnReturn(d, err)
    \/ \E s \in Streams : PeerClose(s)
    \/ \E h \in CopyHandlers : SetCopyHandler(h)

SpecMut == Init /\ [][NextMut]_vars

\* The Go scheduler runs every runnable goroutine: each step of the engine's
\* own goroutines is taken if it stays enabled.  Nothing is assumed of the
\* handlers, the copy operations or the peers.
Fairness ==
    /\ WF_vars(ReturnAfterHandler)
    /\ WF_vars(GoClientToServer)
    /\ WF_vars(GoServerToClient)
    /\ WF_vars(Wait1)
    /\ WF_vars(Wait2)
    /\ WF_vars(RunDeferred)
    /\ \A d \in Directions : WF_vars(CopyFunc(d))
    /\ \A d \in Directions : WF_vars(Signal(d))

SpecFair == Init /\ [][Next]_vars /\ Fairness

\* ------------------------------------------------------------------------
\* Properties
\* ------------------------------------------------------------------------
Range(f) == {f[i] : i \in DOMAIN f}

IsPrefix(a, b) == Len(a) <= Len(b) /\ a = SubSeq(b, 1, Len(a))

\* Which of the two paths of proxyWebsocket the call has entered.
OnRelayPath == "defer" \in Range(trace.main)
OnHandlerPath == "HandleWebSocket" \in Range(trace.main)

\* C1: on the no-full-handler path proxyWebsocket has not returned while a
\* direction's copy operation is still running: when it has returned, both
\* copy operations have returned and both goroutines have signalled.
C1_ReturnAfterBothCopies ==
    (OnRelayPath /\ pc = "returned") =>
        \A d \in Directions : copyRet[d] # NoRet /\ task[d] = "done"

C1_Witness ==
    /\ OnRelayPath
    /\ pc = "returned"
    /\ \A d \in Directions : task[d] = "done"

\* C2: on the no-full-handler path with a close handler registered, the
\* close handler is never called twice, and it has been called exactly once
\* (with ctx) when proxyWebsocket has returned, whatever the copies returned.
C2_CloseExactlyOnce ==
    (OnRelayPath /\ ctx.WebSocketCloseHandler # "nil") =>
        /\ Len(closeCalls) <= 1
        /\ pc = "returned" => closeCalls = <<ctx>>

C2_Witness ==
    /\ OnRelayPath
    /\ ctx.WebSocketCloseHandler # "nil"
    /\ pc = "returned"
    /\ copyRet[WebSocketClientToServer].err = "err"
    /\ copyRet[WebSocketServerToClient].err = "nil"
    /\ closeCalls = <<ctx>>

\* C3: with a full handler registered the call runs the full-handler path
\* only: no close handler call, no copyFunc / copy hook / copyOrWarn call, no
\* goroutine started, nothing written by the engine; and a call that has
\* started has entered exactly one of the two paths.
C3_FullHandlerPathOnly ==
    /\ ctx.WebSocketHandler # "nil" =>
          /\ closeCalls = <<>>
          /\ copyFuncCalls = <<>>
          /\ opCalls = <<>>
          /\ \A d \in Directions : task[d] = "unstarted"
          /\ \A s \in Streams : outbuf[s] = <<>>
          /\ waitChan = 0
    /\ pc # "idle" => (OnHandlerPath /\ Len(handlerCalls) = 1) # OnRelayPath

C3_Witness ==
    /\ ctx.WebSocketHandler # "nil"
    /\ ctx.WebSocketCopyHandler # "nil"
    /\ ctx.WebSocketCloseHandler # "nil"
    /\ pc = "returned"
    /\ OnHandlerPath

\* C4: with a full handler registered, the handler is called exactly once,
\* on the caller's goroutine, with (remoteConn, proxyClient, ctx); the call
\* has returned only if the handler has returned, and once the handler has
\* returned the call returns.
C4_HandlerCalledOnceSync ==
    /\ [](ctx.WebSocketHandler # "nil" =>
            /\ pc # "idle" =>
                  handlerCalls = <<[remoteConn |-> "remoteConn",
                                    proxyClient |-> "proxyClient",
                                    ctx |-> ctx, on |-> "main"]>>
            /\ pc = "returned" => handler = "returned"
            /\ handler = "running" => pc = "inHandler")
    /\ (handler = "returned") ~> (pc = "returned")

C4_Witness ==
    /\ ctx.WebSocketHandler # "nil"
    /\ Len(handlerCalls) = 1
    /\ handler = "returned"
    /\ pc = "returned"

\* C5: on the no-full-handler path copyFunc is called at most once per
\* direction and exactly twice by the time of the return: once tagged
\* client-to-server with dst = remoteConn, src = proxyClient, once tagged
\* server-to-client with dst = proxyClient, src = remoteConn; the copy
\* operation gets the same streams (and the hook the same tag); every stream
\* is written by one goroutine only, which is not the one reading it.
ExpectedCopies ==
    { [dst |-> "remoteConn", src |-> "proxyClient",
       direction |-> WebSocketClientToServer],
      [dst |-> "proxyClient", src |-> "remoteConn",
       direction |-> WebSocketServerToClient] }

CopyArgs(c) == [dst |-> c.dst, src |-> c.src, direction |-> c.direction]

C5_TwoCopiesOnePerDirection ==
    OnRelayPath =>
        /\ Len(copyFuncCalls) <= 2
        /\ \A i \in 1..Len(copyFuncCalls) :
                /\ CopyArgs(copyFuncCalls[i]) \in ExpectedCopies
                /\ copyFuncCalls[i].on = copyFuncCalls[i].direction
        /\ \A i, j \in 1..Len(copyFuncCalls) :
                i # j => copyFuncCalls[i].direction # copyFuncCalls[j].direction
        /\ Len(opCalls) = Len(copyFuncCalls)
        /\ \A i \in 1..Len(opCalls) :
                /\ opCalls[i].dst = copyFuncCalls[i].dst
                /\ opCalls[i].src = copyFuncCalls[i].src
                /\ opCalls[i].on = copyFuncCalls[i].on
                /\ opCalls[i].op # "copyOrWarn" =>
                        opCalls[i].direction = copyFuncCalls[i].direction
        /\ \A k \in 1..Len(outbuf["remoteConn"]) :
                outbuf["remoteConn"][k].on = WebSocketClientToServer
        /\ \A k \in 1..Len(outbuf["proxyClient"]) :
                outbuf["proxyClient"][k].on = WebSocketServerToClient
        /\ pc = "returned" =>
                {CopyArgs(copyFuncCalls[i]) : i \in 1..Len(copyFuncCalls)}
                    = ExpectedCopies

C5_Witness ==
    /\ OnRelayPath
    /\ pc = "returned"
    /\ Len(copyFuncCalls) = 2
    /\ outbuf["remoteConn"] # <<>>
    /\ outbuf["proxyClient"] # <<>>

\* C6: on the no-full-handler path, with a copy hook registered every copy
\* operation called is the hook, copyOrWarn is never called, every byte on
\* either stream was written by the hook, and a peer observes exactly what
\* the hook made of the bytes read so far; with no hook registered every
\* copy operation called is copyOrWarn.
BytesOn(s) == [k \in 1..Len(outbuf[s]) |-> outbuf[s][k].b]

RECURSIVE HookImage(_, _)
HookImage(h, data) ==
    IF data = <<>> THEN <<>>
    ELSE HookOutput(h, Head(data)) \o HookImage(h, Tail(data))

Consumed(s) == SubSeq(sent[s], 1, Len(sent[s]) - Len(inbuf[s]))

C6_HookReplacesDefault ==
    OnRelayPath =>
        /\ \A d \in Directions :
                task[d] \in {"inHook", "inCopyOrWarn", "copied", "done"} =>
                    \E i \in 1..Len(opCalls) : opCalls[i].on = d
        /\ ctx.WebSocketCopyHandler # "nil" =>
                /\ \A i \in 1..Len(opCalls) :
                        opCalls[i].op = ctx.WebSocketCopyHandler
                /\ \A s \in Streams : \A k \in 1..Len(outbuf[s]) :
                        outbuf[s][k].by = ctx.WebSocketCopyHandler
                /\ BytesOn("remoteConn") =
                        HookImage(ctx.WebSocketCopyHandler, Consumed("proxyClient"))
                /\ BytesOn("proxyClient") =
                        HookImage(ctx.WebSocketCopyHandler, Consumed("remoteConn"))
        /\ ctx.WebSocketCopyHandler = "nil" =>
                \A i \in 1..Len(opCalls) : opCalls[i].op = "copyOrWarn"

C6_Witness ==
    /\ OnRelayPath
    /\ ctx.WebSocketCopyHandler = "suffixHook"
    /\ pc = "returned"
    /\ BytesOn("remoteConn") = <<1>> \o sSuffix
    /\ BytesOn("proxyClient") = <<2>> \o sSuffix

\* C7: the values the copy operations return do not steer the engine: on the
\* no-full-handler path the steps of the calling goroutine and of each
\* direction's goroutine are always a prefix of one fixed sequence that
\* depends on the registered handlers only, and the whole sequence has been
\* performed when the call has returned (both directions ran, both signals
\* were received, the close handler was called), errors or not.
ExpectedMain ==
    <<"defer", "go", "go", "recv", "recv">>
        \o (IF ctx.WebSocketCloseHandler # "nil"
            THEN <<"WebSocketCloseHandler">> ELSE <<>>)
        \o <<"return">>

ExpectedTask ==
    <<IF ctx.WebSocketCopyHandler # "nil"
      THEN "WebSocketCopyHandler" ELSE "copyOrWarn", "send">>

C7_ErrorsDoNotSteer ==
    OnRelayPath =>
        /\ IsPrefix(trace.main, ExpectedMain)
        /\ \A d \in Directions : IsPrefix(trace.tasks[d], ExpectedTask)
        /\ pc = "returned" =>
                /\ trace.main = ExpectedMain
                /\ \A d \in Directions : trace.tasks[d] = ExpectedTask

C7_Witness ==
    /\ OnRelayPath
    /\ pc = "returned"
    /\ copyRet[WebSocketServerToClient].err = "err"
    /\ copyRet[WebSocketClientToServer].err = "nil"
    /\ trace.main = ExpectedMain

\* C8: no step of the engine closes a stream (a step that changes what is
\* closed changes nothing the engine's goroutines hold), a step of one
\* direction's goroutine leaves the other goroutine where it is, and the
\* calling goroutine gets past the second receive only when both directions'
\* copies have returned.
C8_NeverClosesNorCancels ==
    [][ /\ closed' # closed => UNCHANGED engineVars
        /\ \A d \in Directions :
              (task[d] \in {"inHook", "inCopyOrWarn"} /\ task'[d] # task[d]) =>
                    /\ copyRet'[d] # copyRet[d]
                    /\ \A e \in Directions \ {d} : task'[e] = task[e]
        /\ (OnRelayPath /\ pc' \in {"defer", "inClose", "returned"}) =>
              \A d \in Directions : task'[d] = "done"
      ]_vars

C8_Witness ==
    /\ OnRelayPath
    /\ pc = "recv2"
    /\ task[WebSocketClientToServer] = "done"
    /\ closed["proxyClient"]
    /\ task[WebSocketServerToClient] \in {"inHook", "inCopyOrWarn"}
    /\ ~closed["remoteConn"]

\* ASCII lower-casing of a string.
Lower(w) == [i \in 1..Len(w) |-> IF 65 <= w[i] /\ w[i] <= 90 THEN w[i] + 32 ELSE w[i]]

\* The header was built with a token under this name whose word is the value
\* up to case.
HasToken(name, value) ==
    \E i \in 1..Len(tokens) :
        /\ tokens[i].name = name
        /\ Lower(tokens[i].tok.word) = Lower(value)

\* C9: isWebSocketHandshake(H) is true exactly when a "Connection" value of H
\* holds a comma-separated token equal to "Upgrade", and an "Upgrade" value a
\* token equal to "websocket", up to case and surrounding white space; it
\* yields a boolean for every H and leaves H as it was.
C9_HandshakeIffBothTokens ==
    hcall.fn = "isWebSocketHandshake" =>
        /\ hcall.result \in BOOLEAN
        /\ hcall.result = (HasToken("Connection", sUpgrade)
                            /\ HasToken("Upgrade", sWebsocket))
        /\ header = HeaderOf(tokens)

C9_Witness ==
    /\ hcall.fn = "isWebSocketHandshake"
    /\ hcall.result
    /\ \E i \in 1..Len(tokens) :
            tokens[i].name = "Connection" /\ tokens[i].tok.word = sUpgradeMixed
    /\ \E i \in 1..Len(tokens) :
            tokens[i].name = "Upgrade" /\ tokens[i].tok.word = sWebSocketMixed

\* C10: headerContains(H, name, value) is true exactly when some token of
\* some occurrence of name equals value up to case and surrounding white
\* space, wherever the token stands and whatever precedes it.
C10_ContainsIffAnyToken ==
    hcall.fn = "headerContains" =>
        hcall.result = HasToken(hcall.name, hcall.value)

C10_Witness ==
    /\ hcall.fn = "headerContains"
    /\ hcall.name = "Connection"
    /\ hcall.value = sUpgrade
    /\ hcall.result
    /\ Len(tokens) = 3
    /\ \A i \in 1..3 : tokens[i].name = "Connection"
    /\ tokens[1].tok.word = sH2c
    /\ tokens[2].tok.word = sUpgrades /\ tokens[2].newOcc
    /\ tokens[3].tok.word = sUpgradeMixed /\ ~tokens[3].newOcc

\* C11: hijackConnection calls Hijack at most once; when Hijack reports an
\* error the function has logged exactly one warning to the session's sink
\* and returns no connection with that error (whatever connection Hijack
\* handed back); when Hijack reports no error it returns the connection with
\* no error and logs nothing.
C11_HijackFailureReported ==
    /\ hj.attempts <= 1
    /\ Len(hj.warns) <= 1
    /\ hj.pc = "returned" =>
          /\ hj.attempts = 1
          /\ ~(hj.ret.conn # "nil" /\ hj.ret.err # "nil")
          /\ hj.got.err # "nil" =>
                /\ hj.warns = <<[Session |-> hj.Session, err |-> hj.got.err]>>
                /\ hj.ret = [conn |-> "nil", err |-> hj.got.err]
          /\ hj.got.err = "nil" =>
                /\ hj.warns = <<>>
                /\ hj.ret = [conn |-> hj.got.conn, err |-> "nil"]

C11_Witness ==
    /\ hj.pc = "returned"
    /\ hj.got.err = "errClosed"
    /\ hj.got.conn = "conn1"
    /\ hj.ret = [conn |-> "nil", err |-> "errClosed"]
    /\ Len(hj.warns) = 1

\* C12: when the response writer is no Hijacker, hijackConnection panics: it
\* never calls Hijack, logs nothing and returns nothing; and it panics in no
\* other case.
C12_NoHijackerPanics ==
    /\ (~hj.hijacker /\ hj.pc # "idle") =>
          /\ hj.pc = "panicked"
          /\ hj.attempts = 0
          /\ hj.warns = <<>>
          /\ hj.ret = NoConn
    /\ hj.pc = "panicked" => ~hj.hijacker

C12_Witness ==
    /\ ~hj.hijacker
    /\ hj.pc = "panicked"
    /\ hj.attempts = 0

\* C13: on the no-full-handler path the call only advances through
\* idle (0), directions running (1), both directions done (2), close handler
\* invoked (3), returned (4), skipping 3 only when no close handler is
\* registered; it is past phase 1 only when both goroutines have finished;
\* the close handler is invoked only then, and before the return; and while
\* exactly one copy has returned nothing is invoked or returned.
PhaseOf(p) ==
    CASE p = "idle" -> 0
      [] p \in {"go1", "go2", "recv1", "recv2"} -> 1
      [] p = "defer" -> 2
      [] p = "inClose" -> 3
      [] OTHER -> 4

C13_PhasesInOrder ==
    [][ OnRelayPath' =>
          /\ PhaseOf(pc') >= PhaseOf(pc)
          /\ PhaseOf(pc') > PhaseOf(pc) =>
                \/ PhaseOf(pc') = PhaseOf(pc) + 1
                \/ /\ PhaseOf(pc) = 2
                   /\ PhaseOf(pc') = 4
                   /\ ctx.WebSocketCloseHandler = "nil"
          /\ PhaseOf(pc') >= 2 => \A d \in Directions : task'[d] = "done"
          /\ closeCalls' # <<>> => \A d \in Directions : task'[d] = "done"
          /\ closeCalls' # closeCalls => pc' = "inClose"
          /\ (pc' = "returned" /\ ctx.WebSocketCloseHandler # "nil") =>
                closeCalls' # <<>>
          /\ (\E d, e \in Directions :
                    copyRet'[d] # NoRet /\ copyRet'[e] = NoRet) =>
                (PhaseOf(pc') = 1 /\ closeCalls' = <<>>)
      ]_vars

C13_Witness ==
    /\ OnRelayPath
    /\ pc = "inClose"
    /\ closeCalls = <<ctx>>
    /\ \A d \in Directions : task[d] = "done"

\* C14: the two directions are independent goroutines: neither go statement
\* waits for anything, both goroutines exist before the caller's first
\* receive, a goroutine can always take its next step whatever the other one
\* is doing, and whichever finishes first the call ends with both goroutines
\* done and the channel drained.
C14_DirectionsIndependent ==
    OnRelayPath =>
        /\ pc = "go1" => ENABLED GoClientToServer
        /\ pc = "go2" => ENABLED GoServerToClient
        /\ pc \in {"recv1", "recv2", "defer", "inClose", "returned"} =>
                \A d \in Directions : task[d] # "unstarted"
        /\ \A d \in Directions : task[d] = "ready" => ENABLED CopyFunc(d)
        /\ \A d \in Directions : task[d] = "copied" => ENABLED Signal(d)
        /\ pc = "returned" =>
                /\ \A d \in Directions : task[d] = "done"
                /\ waitChan = 0

\* The direction started second has finished while the one started first is
\* still inside its copy.
C14_Witness ==
    /\ OnRelayPath
    /\ pc = "recv2"
    /\ task[WebSocketServerToClient] = "done"
    /\ task[WebSocketClientToServer] \in {"inHook", "inCopyOrWarn"}
    /\ copyRet[WebSocketClientToServer] = NoRet

\* Both copy operations of a relay have returned.
BothCopiesReturned ==
    OnRelayPath /\ \A d \in Directions : copyRet[d] # NoRet

\* A step of one of the engine's goroutines on the relay path.
RelayEngineStep ==
    \/ GoClientToServer
    \/ GoServerToClient
    \/ Wait1
    \/ Wait2
    \/ RunDeferred
    \/ \E d \in Directions : CopyFunc(d)
    \/ \E d \in Directions : Signal(d)

\* The relay has not returned and none of its goroutines can take a step.
RelayStuck ==
    /\ OnRelayPath
    /\ pc # "returned"
    /\ ~ENABLED RelayEngineStep

ReturnCount == Cardinality({i \in 1..Len(trace.main) : trace.main[i] = "return"})

\* C15 as stated: the only way for a relay to be stuck is a copy operation
\* that has not returned.
C15_Original ==
    RelayStuck => \E d \in Directions : task[d] \in {"inHook", "inCopyOrWarn"}

\* C15, amended: under fair scheduling, once both copy operations have
\* returned both goroutines signal, the barrier is released and the deferred
\* close handler is reached; the call returns, once, provided the close
\* handler returns when it is invoked; a relay is stuck only inside a copy
\* operation or inside the close handler.
C15_EventuallyReturns ==
    /\ BothCopiesReturned ~> (\A d \in Directions : task[d] = "done")
    /\ BothCopiesReturned ~> (pc \in {"inClose", "returned"})
    /\ WF_vars(CloseReturn) => (BothCopiesReturned ~> (pc = "returned"))
    /\ [](ReturnCount <= 1 /\ (pc = "returned" => ReturnCount = 1))
    /\ [](RelayStuck =>
            \/ \E d \in Directions : task[d] \in {"inHook", "inCopyOrWarn"}
            \/ pc = "inClose")

C15_Witness ==
    /\ BothCopiesReturned
    /\ ctx.WebSocketCloseHandler # "nil"
    /\ pc = "returned"
    /\ ReturnCount = 1
    /\ waitChan = 0
    /\ \A d \in Directions : copyRet[d].err = "nil"

\* C16 as stated: on the no-full-handler path both directions use the same
\* kind of copy operation (both a copy hook, or both copyOrWarn), also when
\* the copy handler slot is rewritten while the relay is running.
C16_SameOperationBothDirections ==
    OnRelayPath =>
        \A i, j \in 1..Len(opCalls) :
            (opCalls[i].op = "copyOrWarn") = (opCalls[j].op = "copyOrWarn")

\* C17: no step of proxyWebsocket, of its goroutines or of the operations it
\* calls writes ctx: a step that changes ctx changes nothing else, so it is a
\* step of another holder of ctx.
C17_EngineNeverWritesCtx ==
    [][ ctx' # ctx =>
            UNCHANGED <<pc, task, waitChan, inbuf, outbuf, closed,
                        handlerCalls, copyFuncCalls, opCalls, copyRet,
                        closeCalls, warnings, trace, handler>>
      ]_vars

\* A relay has run to its return through the close handler while the copy
\* handler slot was rewritten by another party.
C17_Witness ==
    /\ OnRelayPath
    /\ pc = "returned"
    /\ Len(opCalls) = 2
    /\ closeCalls # <<>>
    /\ opCalls[1].ctx # ctx
    /\ closeCalls[1].WebSocketCloseHandler = ctx.WebSocketCloseHandler
    /\ closeCalls[1].Session = ctx.Session

\* C18: on the no-full-handler path waitChan never holds more than two
\* signals, each goroutine sends at most once and its send never blocks, the
\* caller receives at most twice, and when the call has returned each
\* goroutine has sent once, the caller has received twice, the channel is
\* empty and both goroutines have ended.
CountOf(seq, a) == Cardinality({i \in 1..Len(seq) : seq[i] = a})

C18_SignalsBalanced ==
    OnRelayPath =>
        /\ waitChan \in 0..2
        /\ \A d \in Directions :
                /\ CountOf(trace.tasks[d], "send") <= 1
                /\ task[d] = "copied" => ENABLED Signal(d)
                /\ task[d] = "done" <=> CountOf(trace.tasks[d], "send") = 1
        /\ CountOf(trace.main, "recv") <= 2
        /\ waitChan + CountOf(trace.main, "recv")
                = Cardinality({d \in Directions : task[d] = "done"})
        /\ pc = "returned" =>
                /\ \A d \in Directions : task[d] = "done"
                /\ CountOf(trace.main, "recv") = 2
                /\ waitChan = 0

\* Both goroutines have signalled before the caller's first receive: the
\* channel holds two signals.
C18_Witness ==
    /\ OnRelayPath
    /\ pc = "recv1"
    /\ waitChan = 2
    /\ \A d \in Directions : task[d] = "done"

====
